---- MODULE Spec2Model ----
(***************************************************************************)
(* AWS AppConfig Environment construct                                     *)
(* (packages/@aws-cdk/aws-appconfig-alpha/lib/environment.ts).             *)
(*                                                                         *)
(* Strings are sequences of one-character strings, so that splitting an    *)
(* ARN on ":" and "/" and formatting one are computed character by         *)
(* character.  An optional value (a `?` property, or a field not assigned  *)
(* yet) is a sequence of length 0 (undefined) or 1 (the value).            *)
(***************************************************************************)
EXTENDS Integers, Sequences, FiniteSets, TLC

VARIABLES input, children, envs, sink, registered, pc, cur, result

vars == <<input, children, envs, sink, registered, pc, cur, result>>

\* ------------------------------------------------------------------ bounds

\* longest application / environment id an input carries
MaxIdLen == 1
\* longest free-form resource name put behind "application/" in an input ARN
MaxRawLen == 5
\* longest monitor list given to the constructor
MaxMonitors == 2

\* ------------------------------------------------------------------ strings

None == <<>>
Some(x) == <<x>>
IsSet(o) == Len(o) = 1
Val(o) == o[1]

\* JavaScript truthiness of an optional string: undefined and "" are falsy
Truthy(o) == IsSet(o) /\ Val(o) # <<>>

Str_arn == <<"a", "r", "n">>
Str_appconfig == <<"a", "p", "p", "c", "o", "n", "f", "i", "g">>
Str_application == <<"a", "p", "p", "l", "i", "c", "a", "t", "i", "o", "n">>
Str_environment == <<"e", "n", "v", "i", "r", "o", "n", "m", "e", "n", "t">>

RECURSIVE SeqsUpTo(_, _)
SeqsUpTo(S, n) ==
  IF n = 0 THEN {<<>>}
  ELSE LET shorter == SeqsUpTo(S, n - 1)
       IN  shorter \cup {Append(s, c) : s \in shorter, c \in S}

\* String.prototype.split(c): the segments of s between occurrences of c
RECURSIVE SplitOn(_, _)
SplitOn(s, c) ==
  IF \A i \in 1..Len(s) : s[i] # c THEN <<s>>
  ELSE LET k == CHOOSE i \in 1..Len(s) :
                  s[i] = c /\ \A j \in 1..(i - 1) : s[j] # c
       IN  <<SubSeq(s, 1, k - 1)>> \o SplitOn(SubSeq(s, k + 1, Len(s)), c)

\* Array.prototype.join(c)
RECURSIVE Join(_, _)
Join(segs, c) ==
  IF Len(segs) = 0 THEN <<>>
  ELSE IF Len(segs) = 1 THEN segs[1]
  ELSE segs[1] \o <<c>> \o Join(Tail(segs), c)

\* ------------------------------------------------------------------ the stack

\* The deployment scope's partition / region / account context.
StackContext ==
  [partition |-> <<"a", "w", "s">>, region |-> <<"r">>, account |-> <<"1">>,
   stackName |-> <<"S">>]

\* Stack.formatArn with the default "/" separator:
\* arn:<partition>:<service>:<region>:<account>:<resource>/<resourceName>
FormatArn(service, resource, resourceName) ==
  Join(<<Str_arn, StackContext.partition, service, StackContext.region,
         StackContext.account, resource>>, ":") \o <<"/">> \o resourceName

\* Stack.splitArn(arn, ArnFormat.SLASH_RESOURCE_NAME): the six ":" components;
\* the sixth splits at its first "/" into resource and resourceName, and any
\* further ":" components belong to the resource name.
SplitArn(arn) ==
  LET comps == SplitOn(arn, ":")
  IN  IF Len(comps) < 6 \/ comps[1] # Str_arn
      THEN [ok |-> FALSE, resource |-> <<>>, resourceName |-> None]
      ELSE LET typeOrName == comps[6]
               rest == SubSeq(comps, 7, Len(comps))
               parts == SplitOn(typeOrName, "/")
               head == IF Len(parts) > 1
                       THEN Some(Join(Tail(parts), "/")) ELSE None
               name == IF Len(rest) = 0 THEN head
                       ELSE IF ~Truthy(head) THEN Some(Join(rest, ":"))
                       ELSE Some(Val(head) \o <<":">> \o Join(rest, ":"))
           IN  [ok |-> TRUE, resource |-> parts[1], resourceName |-> name]

\* `${applicationId}/environment/${environmentId}`
ResourceNameOf(applicationId, environmentId) ==
  applicationId \o <<"/">> \o Str_environment \o <<"/">> \o environmentId

\* ------------------------------------------------------------------ inputs

Ids == {"1", "2"}

IdChars == {"a", "b", "/"}
IdStrs == SeqsUpTo(IdChars, MaxIdLen)
RawChars == {"a", "/"}
RawNames == SeqsUpTo(RawChars, MaxRawLen)

Str_foo == <<"f", "o", "o">>

\* application objects (IApplication): only applicationId is read here
Applications == {[applicationId |-> s] : s \in IdStrs}

ArnHeader ==
  Join(<<Str_arn, StackContext.partition, Str_appconfig, StackContext.region,
         StackContext.account, Str_application>>, ":")

\* ARNs handed to fromEnvironmentArn by callers: the canonical shape, a wrong
\* middle segment, free-form resource names, no resource name at all, and a
\* string that is no ARN.
ShapedNames == {ResourceNameOf(a, e) : a \in IdStrs, e \in IdStrs}
MiddleNames == {a \o <<"/">> \o Str_foo \o <<"/">> \o e :
                  a \in IdStrs \ {<<>>}, e \in IdStrs \ {<<>>}}
ResourceNames == ShapedNames \cup MiddleNames \cup RawNames
ArnOfName(rn) == ArnHeader \o <<"/">> \o rn
ArnInputs ==
  {ArnOfName(rn) : rn \in ResourceNames} \cup {ArnHeader, Str_application}


\* cloudwatch.IAlarm.alarmArn of the alarms callers monitor (opaque here)
Alarms == {"alarm-1", "alarm-2"}

\* iam.IRole objects callers supply as Monitor.alarmRole: only roleArn is read
SuppliedRoles == {[roleArn |-> <<>>], [roleArn |-> <<"R">>]}

Monitors ==
  {[alarm |-> [alarmArn |-> a], alarmRole |-> r] :
     a \in Alarms, r \in {None} \cup {Some(x) : x \in SuppliedRoles}}

MonitorLists == SeqsUpTo(Monitors, MaxMonitors)

Names == {<<>>, <<"n">>}

\* the application the constructed environments belong to
OwnerApplications == {[applicationId |-> <<"a">>]}

\* EnvironmentProps (description is passed through untouched and left out)
EnvironmentProps ==
  {[application |-> app, name |-> n, monitors |-> m] :
     app \in OwnerApplications,
     n \in {None} \cup {Some(x) : x \in Names},
     m \in {None} \cup {Some(x) : x \in MonitorLists}}

\* EnvironmentAttributes
EnvironmentAttributes ==
  {[application |-> app, environmentId |-> e, name |-> n] :
     app \in Applications, e \in IdStrs,
     n \in {None} \cup {Some(x) : x \in Names}}

\* The argument value the calling program holds for its calls: an ARN for
\* fromEnvironmentArn, attributes for fromEnvironmentAttributes, or props for
\* the constructor.  One run uses one value, with any construct ids.
Inputs ==
  {[kind |-> "arn", value |-> a] : a \in ArnInputs}
    \cup {[kind |-> "attr", value |-> a] : a \in EnvironmentAttributes}
    \cup {[kind |-> "props", value |-> p] : p \in EnvironmentProps}

\* the eight hook registrations and addExtension
HookOps ==
  {"on", "preCreateHostedConfigurationVersion", "preStartDeployment",
   "onDeploymentStart", "onDeploymentStep", "onDeploymentBaking",
   "onDeploymentComplete", "onDeploymentRolledBack", "addExtension"}

\* ------------------------------------------------------------------ state

\* An environment object as the three classes lay it out.  `extensible` is
\* the protected field of EnvironmentBase: declared, assigned by no
\* initializer.
BlankEnv(kind) ==
  [kind |-> kind, applicationId |-> None, environmentId |-> None,
   environmentArn |-> None, name |-> None, monitors |-> None,
   extensible |-> None, roles |-> <<>>]

NoResult ==
  [op |-> "none", id |-> "", arn |-> <<>>, status |-> "none", error |-> "",
   target |-> None]

Returned(op, id, arn) ==
  [op |-> op, id |-> id, arn |-> arn, status |-> "returned", error |-> "",
   target |-> None]

Threw(op, id, arn, error) ==
  [op |-> op, id |-> id, arn |-> arn, status |-> "threw", error |-> error,
   target |-> None]

Init ==
  /\ input \in Inputs
  /\ children = {}
  /\ envs = << >>
  /\ sink = << >>
  /\ registered = << >>
  /\ pc = "idle"
  /\ cur = None
  /\ result = NoResult

\* Construct's constructor: the scope refuses a second child of the same id
CanAddChild(id) == id \notin children

\* ------------------------------------------------------------------ imports

\* ParseEnvironmentArn reading environmentId from the second segment
ParseEnvironmentArn_SecondSegment(arn) ==
  LET parsedArn == SplitArn(arn)
  IN  IF ~parsedArn.ok
      THEN [error |-> "splitArn", applicationId |-> <<>>, environmentId |-> <<>>]
      ELSE IF ~Truthy(parsedArn.resourceName)
      THEN [error |-> "MissingResourceName", applicationId |-> <<>>,
            environmentId |-> <<>>]
      ELSE LET resourceName == SplitOn(Val(parsedArn.resourceName), "/")
           IN  IF Len(resourceName) # 3 \/ resourceName[1] = <<>>
                  \/ resourceName[3] = <<>>
               THEN [error |-> "MissingParameters", applicationId |-> <<>>,
                     environmentId |-> <<>>]
               ELSE [error |-> "", applicationId |-> resourceName[1],
                     environmentId |-> resourceName[2]]

\* ParseEnvironmentArn checking the segment count alone
ParseEnvironmentArn_CountOnly(arn) ==
  LET parsedArn == SplitArn(arn)
  IN  IF ~parsedArn.ok
      THEN [error |-> "splitArn", applicationId |-> <<>>, environmentId |-> <<>>]
      ELSE IF ~Truthy(parsedArn.resourceName)
      THEN [error |-> "MissingResourceName", applicationId |-> <<>>,
            environmentId |-> <<>>]
      ELSE LET resourceName == SplitOn(Val(parsedArn.resourceName), "/")
           IN  IF Len(resourceName) # 3
               THEN [error |-> "MissingParameters", applicationId |-> <<>>,
                     environmentId |-> <<>>]
               ELSE [error |-> "", applicationId |-> resourceName[1],
                     environmentId |-> resourceName[3]]

\* fromEnvironmentArn up to the Import class: the parse and its two checks
ParseEnvironmentArn(arn) ==
  LET parsedArn == SplitArn(arn)
  IN  IF ~parsedArn.ok
      THEN [error |-> "splitArn", applicationId |-> <<>>, environmentId |-> <<>>]
      ELSE IF ~Truthy(parsedArn.resourceName)
      THEN [error |-> "MissingResourceName", applicationId |-> <<>>,
            environmentId |-> <<>>]
      ELSE LET resourceName == SplitOn(Val(parsedArn.resourceName), "/")
           IN  IF Len(resourceName) # 3 \/ resourceName[1] = <<>>
                  \/ resourceName[3] = <<>>
               THEN [error |-> "MissingParameters", applicationId |-> <<>>,
                     environmentId |-> <<>>]
               ELSE [error |-> "", applicationId |-> resourceName[1],
                     environmentId |-> resourceName[3]]

\* class Import of fromEnvironmentArn
ImportFromArn(applicationId, environmentId, environmentArn) ==
  [BlankEnv("ImportArn") EXCEPT
     !.applicationId = Some(applicationId),
     !.environmentId = Some(environmentId),
     !.environmentArn = Some(environmentArn)]

\* class Import of fromEnvironmentAttributes
ImportFromAttributes(attr, environmentArn) ==
  [BlankEnv("ImportAttributes") EXCEPT
     !.applicationId = Some(attr.application.applicationId),
     !.environmentId = Some(attr.environmentId),
     !.environmentArn = Some(environmentArn),
     !.name = attr.name]

\* AttributesArn with the two ids in each other's place
AttributesArn_Swapped(attr) ==
  FormatArn(Str_appconfig, Str_application,
            ResourceNameOf(attr.environmentId, attr.application.applicationId))

\* the ARN fromEnvironmentAttributes computes
AttributesArn(attr) ==
  FormatArn(Str_appconfig, Str_application,
            ResourceNameOf(attr.application.applicationId, attr.environmentId))

FromEnvironmentArn(id, environmentArn) ==
  /\ pc = "idle"
  /\ LET parsed == ParseEnvironmentArn(environmentArn)
         op == "fromEnvironmentArn"
     IN  IF parsed.error # ""
         THEN /\ result' = Threw(op, id, environmentArn, parsed.error)
              /\ UNCHANGED <<children, envs>>
         ELSE IF ~CanAddChild(id)
         THEN /\ result' = Threw(op, id, environmentArn, "DuplicateConstructId")
              /\ UNCHANGED <<children, envs>>
         ELSE /\ children' = children \cup {id}
              /\ envs' = envs @@ (id :> ImportFromArn(parsed.applicationId,
                                        parsed.environmentId, environmentArn))
              /\ result' = Returned(op, id, environmentArn)
  /\ UNCHANGED <<input, sink, registered, pc, cur>>

FromEnvironmentAttributes(id, attr) ==
  /\ pc = "idle"
  /\ LET environmentArn == AttributesArn(attr)
         op == "fromEnvironmentAttributes"
     IN  IF ~CanAddChild(id)
         THEN /\ result' = Threw(op, id, environmentArn, "DuplicateConstructId")
              /\ UNCHANGED <<children, envs>>
         ELSE /\ children' = children \cup {id}
              /\ envs' = envs @@ (id :> ImportFromAttributes(attr, environmentArn))
              /\ result' = Returned(op, id, environmentArn)
  /\ UNCHANGED <<input, sink, registered, pc, cur>>

\* ARNs a caller may pass to fromEnvironmentArn: the enumerated inputs and the
\* environmentArn of any environment already in the scope
KnownArns == {Val(envs[i].environmentArn) : i \in {j \in DOMAIN envs : IsSet(envs[j].environmentArn)}}


\* ------------------------------------------------------------------ constructor

\* Names.uniqueResourceName(this, { maxLength: 64, separator: '-' }): the
\* construct's path segments joined by the separator, cut to maxLength
UniqueNameMaxLength == 64
UniqueResourceName(id) ==
  LET full == Join(<<StackContext.stackName, <<id>>>>, "-")
  IN  SubSeq(full, 1, IF Len(full) < UniqueNameMaxLength
                      THEN Len(full) ELSE UniqueNameMaxLength)

\* CfnEnvironment.ref: the identifier the resource sink assigns
RefOf(id) == <<"$", id>>

Str_Role == <<"R", "o", "l", "e">>
DigitOf(index) == <<"0", "1", "2", "3", "4", "5", "6", "7", "8", "9">>[index + 1]

\* the roleArn attribute of a role synthesized as child `childId` of `id`
RoleArnOf(id, childId) == <<"$", id, "/">> \o childId

\* createAlarmRole allowing the action on every alarm
CreateAlarmRole_AnyAlarm(id, alarmArn, index) ==
  LET policy == [effect |-> "Allow",
                 actions |-> <<"cloudwatch:DescribeAlarms">>,
                 resources |-> <<"*">>]
      childId == Str_Role \o <<DigitOf(index)>>
  IN  [id |-> childId,
       assumedBy |-> {"appconfig.amazonaws.com"},
       inlinePolicies |-> <<[name |-> "AllowAppConfigMonitorAlarmPolicy",
                             statements |-> <<policy>>]>>,
       roleArn |-> RoleArnOf(id, childId)]

\* createAlarmRole naming every role `Role0`
CreateAlarmRole_NoIndex(id, alarmArn, index) ==
  LET policy == [effect |-> "Allow",
                 actions |-> <<"cloudwatch:DescribeAlarms">>,
                 resources |-> <<alarmArn>>]
      childId == Str_Role \o <<DigitOf(0)>>
  IN  [id |-> childId,
       assumedBy |-> {"appconfig.amazonaws.com"},
       inlinePolicies |-> <<[name |-> "AllowAppConfigMonitorAlarmPolicy",
                             statements |-> <<policy>>]>>,
       roleArn |-> RoleArnOf(id, childId)]

\* createAlarmRole(alarmArn, index)
CreateAlarmRole(id, alarmArn, index) ==
  LET policy == [effect |-> "Allow",
                 actions |-> <<"cloudwatch:DescribeAlarms">>,
                 resources |-> <<alarmArn>>]
      childId == Str_Role \o <<DigitOf(index)>>
  IN  [id |-> childId,
       assumedBy |-> {"appconfig.amazonaws.com"},
       inlinePolicies |-> <<[name |-> "AllowAppConfigMonitorAlarmPolicy",
                             statements |-> <<policy>>]>>,
       roleArn |-> RoleArnOf(id, childId)]

\* does the map callback fall through `||` to createAlarmRole?
NeedsAlarmRole(monitor) ==
  ~(IsSet(monitor.alarmRole) /\ Val(monitor.alarmRole).roleArn # <<>>)

\* the callback of this.monitors?.map((monitor, index) => ...); index from 0
MonitorEntry(id, monitor, index) ==
  [alarmArn |-> monitor.alarm.alarmArn,
   alarmRoleArn |-> IF NeedsAlarmRole(monitor)
                    THEN CreateAlarmRole(id, monitor.alarm.alarmArn, index).roleArn
                    ELSE Val(monitor.alarmRole).roleArn]

\* the roles the map creates, in creation order, from position k on
RECURSIVE RolesFrom(_, _, _)
RolesFrom(id, monitors, k) ==
  IF k > Len(monitors) THEN <<>>
  ELSE (IF NeedsAlarmRole(monitors[k])
        THEN <<CreateAlarmRole(id, monitors[k].alarm.alarmArn, k - 1)>>
        ELSE <<>>) \o RolesFrom(id, monitors, k + 1)

MapMonitors(id, monitors) ==
  [k \in 1..Len(monitors) |-> MonitorEntry(id, monitors[k], k - 1)]

\* this.name = props.name || Names.uniqueResourceName(...)
ResolveName(id, props) ==
  IF Truthy(props.name) THEN Val(props.name) ELSE UniqueResourceName(id)

\* application.addExistingEnvironment(environment): appended to the parent's list
AddExistingEnvironment(list, application, id) ==
  Append(list, [application |-> application, environment |-> id])

CurId == Val(cur).id
CurProps == Val(cur).props

\* super(scope, id, { physicalName: props.name })
CtorSuper(id, props) ==
  /\ pc = "idle"
  /\ IF ~CanAddChild(id)
     THEN /\ result' = Threw("new Environment", id, <<>>, "DuplicateConstructId")
          /\ UNCHANGED <<children, envs, pc, cur>>
     ELSE /\ children' = children \cup {id}
          /\ envs' = envs @@ (id :> BlankEnv("Environment"))
          /\ cur' = Some([id |-> id, props |-> props])
          /\ pc' = "fields"
          /\ result' = [NoResult EXCEPT !.op = "new Environment", !.id = id,
                                        !.status = "running"]
  /\ UNCHANGED <<input, sink, registered>>

\* this.name, this.application, this.applicationId, this.monitors
CtorFields ==
  /\ pc = "fields"
  /\ envs' = [envs EXCEPT ![CurId] =
                [@ EXCEPT !.name = Some(ResolveName(CurId, CurProps)),
                          !.applicationId = Some(CurProps.application.applicationId),
                          !.monitors = CurProps.monitors]]
  /\ pc' = "resource"
  /\ UNCHANGED <<input, children, sink, registered, cur, result>>

\* new CfnEnvironment(this, 'Resource', {...}), the monitor map included
CtorResource ==
  /\ pc = "resource"
  /\ LET env == envs[CurId]
         monitors == env.monitors
     IN  /\ sink' = sink @@ (CurId :>
                      [applicationId |-> Val(env.applicationId),
                       name |-> Val(env.name),
                       monitors |-> IF IsSet(monitors)
                                    THEN Some(MapMonitors(CurId, Val(monitors)))
                                    ELSE None])
         /\ envs' = [envs EXCEPT ![CurId].roles =
                       IF IsSet(monitors) THEN RolesFrom(CurId, Val(monitors), 1)
                       ELSE <<>>]
  /\ pc' = "identity"
  /\ UNCHANGED <<input, children, registered, cur, result>>

\* this.environmentId = ref; this.environmentArn = this.stack.formatArn(...)
CtorIdentity ==
  /\ pc = "identity"
  /\ LET environmentId == RefOf(CurId)
     IN  envs' = [envs EXCEPT ![CurId] =
                    [@ EXCEPT !.environmentId = Some(environmentId),
                              !.environmentArn = Some(FormatArn(Str_appconfig,
                                 Str_application,
                                 ResourceNameOf(Val(envs[CurId].applicationId),
                                                environmentId)))]]
  /\ pc' = "extensible"
  /\ UNCHANGED <<input, children, sink, registered, cur, result>>

\* the collaborator step registering with the application as well
CtorExtensible_Registers ==
  /\ pc = "extensible"
  /\ envs' = [envs EXCEPT ![CurId] =
                [@ EXCEPT !.extensible =
                   Some([resourceArn |-> Val(envs[CurId].environmentArn),
                         resourceName |-> Val(envs[CurId].name)])]]
  /\ registered' = AddExistingEnvironment(registered, CurProps.application, CurId)
  /\ pc' = "register"
  /\ UNCHANGED <<input, children, sink, cur, result>>

\* this.extensible = new ExtensibleBase(scope, this.environmentArn, this.name)
CtorExtensible ==
  /\ pc = "extensible"
  /\ envs' = [envs EXCEPT ![CurId] =
                [@ EXCEPT !.extensible =
                   Some([resourceArn |-> Val(envs[CurId].environmentArn),
                         resourceName |-> Val(envs[CurId].name)])]]
  /\ pc' = "register"
  /\ UNCHANGED <<input, children, sink, registered, cur, result>>

\* this.application.addExistingEnvironment(this)
CtorRegister ==
  /\ pc = "register"
  /\ registered' = AddExistingEnvironment(registered, CurProps.application, CurId)
  /\ pc' = "idle"
  /\ cur' = None
  /\ result' = Returned("new Environment", CurId, Val(envs[CurId].environmentArn))
  /\ UNCHANGED <<input, children, envs, sink>>

\* ------------------------------------------------------------------ hooks

\* EnvironmentBase.on ... addExtension: this.extensible.<op>(...)
Hook(id, op) ==
  /\ pc = "idle"
  /\ id \in DOMAIN envs
  /\ result' = IF IsSet(envs[id].extensible)
               THEN [Returned(op, id, <<>>) EXCEPT !.target = envs[id].extensible]
               ELSE Threw(op, id, <<>>, "TypeError")
  /\ UNCHANGED <<input, children, envs, sink, registered, pc, cur>>

\* ------------------------------------------------------------------ specifications

BuildNext ==
  \/ \E id \in Ids : input.kind = "arn" /\ FromEnvironmentArn(id, input.value)
  \/ \E id \in Ids, arn \in KnownArns : FromEnvironmentArn(id, arn)
  \/ \E id \in Ids : input.kind = "attr" /\ FromEnvironmentAttributes(id, input.value)
  \/ \E id \in Ids : input.kind = "props" /\ CtorSuper(id, input.value)
  \/ CtorFields
  \/ CtorResource
  \/ CtorIdentity
  \/ CtorExtensible
  \/ CtorRegister

HookNext == \E id \in Ids, op \in HookOps : Hook(id, op)

Next == BuildNext \/ HookNext

\* construction, imports and hook registrations
Spec == Init /\ [][Next]_vars

\* construction and imports alone
SpecBuild == Init /\ [][BuildNext]_vars


\* ------------------------------------------------------------------ properties

Range(f) == {f[k] : k \in DOMAIN f}

SlashCount(s) == Cardinality({k \in 1..Len(s) : s[k] = "/"})

\* ids that are non-empty and free of "/"
PlainIds == {s \in IdStrs : s # <<>> /\ SlashCount(s) = 0}

\* resource names the import must refuse: empty, not exactly three "/"-separated
\* segments, or an empty first or third segment
RefusedNames ==
  {rn \in ResourceNames :
     \/ rn = <<>>
     \/ SlashCount(rn) # 2
     \/ rn[1] = "/"
     \/ rn[Len(rn)] = "/"}

\* this step is a call fromEnvironmentArn(scope, id, arn)
ArnCalled(id, arn) ==
  /\ pc = "idle"
  /\ result'.op = "fromEnvironmentArn"
  /\ result'.id = id
  /\ result'.arn = arn

\* the environments whose constructor has returned
Constructed ==
  {id \in DOMAIN envs :
     envs[id].kind = "Environment" /\ ~(IsSet(cur) /\ CurId = id)}

RoleChildId(index) == Str_Role \o <<DigitOf(index)>>

\* C1: every hook registration and addExtension, on an environment of any of
\* the three variants, is forwarded to the extensible collaborator built with
\* that environment's (environmentArn, name); none finds the collaborator unset.
C1_HooksForwarded ==
  result.op \in HookOps =>
    /\ result.status = "returned"
    /\ IsSet(envs[result.id].extensible)
    /\ result.target = envs[result.id].extensible
    /\ Val(result.target).resourceArn = Val(envs[result.id].environmentArn)

\* C2: an ARN whose resource name is A/environment/E, A and E non-empty and
\* free of "/", imported under a construct id the scope does not hold yet:
\* the call returns an environment with applicationId = A, environmentId = E
\* and environmentArn the input string itself.
C2_ArnImportYieldsIds ==
  [][\A id \in Ids, a \in PlainIds, e \in PlainIds :
       LET arn == ArnOfName(ResourceNameOf(a, e))
       IN  (ArnCalled(id, arn) /\ id \notin children) =>
             /\ result'.status = "returned"
             /\ id \in DOMAIN envs'
             /\ envs'[id].kind = "ImportArn"
             /\ envs'[id].applicationId = Some(a)
             /\ envs'[id].environmentId = Some(e)
             /\ envs'[id].environmentArn = Some(arn)]_vars

C2_Witness ==
  /\ result.op = "fromEnvironmentArn"
  /\ result.status = "returned"
  /\ result.arn = ArnOfName(ResourceNameOf(<<"a">>, <<"b">>))
  /\ envs[result.id].applicationId = Some(<<"a">>)
  /\ envs[result.id].environmentId = Some(<<"b">>)

\* C3: an ARN with no resource name, or one that does not split on "/" into
\* exactly three segments, or with an empty first or third segment, makes
\* fromEnvironmentArn throw; the scope gains no child and no environment.
C3_MalformedArnThrows ==
  [][\A id \in Ids, arn \in {ArnHeader} \cup {ArnOfName(rn) : rn \in RefusedNames} :
       ArnCalled(id, arn) =>
         /\ result'.status = "threw"
         /\ result'.error \in {"MissingResourceName", "MissingParameters"}
         /\ children' = children
         /\ envs' = envs]_vars

C3_Witness ==
  /\ result.op = "fromEnvironmentArn"
  /\ result.status = "threw"
  /\ result.error = "MissingParameters"
  /\ result.arn = ArnOfName(<<"/">> \o Str_environment \o <<"/", "a">>)
  /\ children = {}

\* C4: a resource name of three segments whose middle one is not the literal
\* "environment" (A/foo/E) is rejected with an error.
C4_MiddleSegmentChecked ==
  (result.op = "fromEnvironmentArn"
     /\ result.arn \in {ArnOfName(rn) : rn \in MiddleNames}) =>
    result.status = "threw" /\ result.error # "DuplicateConstructId"

\* C5 as stated: the ARN computed by fromEnvironmentAttributes for any pair
\* (appId, envId), handed to fromEnvironmentArn under a fresh construct id,
\* is imported with the same pair.
C5_RoundTripAnyPair ==
  [][\A i \in DOMAIN envs, id \in Ids :
       (/\ envs[i].kind = "ImportAttributes"
        /\ id \notin children
        /\ ArnCalled(id, Val(envs[i].environmentArn))) =>
          /\ result'.status = "returned"
          /\ envs'[id].applicationId = envs[i].applicationId
          /\ envs'[id].environmentId = envs[i].environmentId]_vars

\* C5 amended: the round trip holds for every pair (appId, envId) whose two
\* ids are non-empty and free of "/".
C5_RoundTripPlainIds ==
  [][\A i \in DOMAIN envs, id \in Ids :
       (/\ envs[i].kind = "ImportAttributes"
        /\ Val(envs[i].applicationId) \in PlainIds
        /\ Val(envs[i].environmentId) \in PlainIds
        /\ id \notin children
        /\ ArnCalled(id, Val(envs[i].environmentArn))) =>
          /\ result'.status = "returned"
          /\ envs'[id].applicationId = envs[i].applicationId
          /\ envs'[id].environmentId = envs[i].environmentId
          /\ envs'[id].environmentArn = envs[i].environmentArn]_vars

C5_Witness ==
  /\ input.kind = "attr"
  /\ input.value.application.applicationId = <<"a">>
  /\ input.value.environmentId = <<"b">>
  /\ "1" \in DOMAIN envs /\ envs["1"].kind = "ImportAttributes"
  /\ "2" \in DOMAIN envs /\ envs["2"].kind = "ImportArn"
  /\ envs["2"].environmentArn = envs["1"].environmentArn
  /\ envs["2"].applicationId = Some(<<"a">>)
  /\ envs["2"].environmentId = Some(<<"b">>)


\* the monitor list and the descriptor entries of an environment whose
\* descriptor the sink holds
MonitorsOf(id) == Val(envs[id].monitors)
EntriesOf(id) == Val(sink[id].monitors)
WithMonitors == {id \in DOMAIN sink : IsSet(envs[id].monitors)}

\* C6: a monitor given with no alarmRole gets a descriptor entry with its own
\* alarm ARN and the non-empty ARN of a role synthesized in this construction;
\* that role is assumable by the AppConfig service principal alone and has
\* exactly one statement: ALLOW, cloudwatch:DescribeAlarms, on that monitor's
\* alarm ARN.
C6_SynthesizedRoleScoped ==
  \A id \in WithMonitors : \A k \in 1..Len(MonitorsOf(id)) :
    ~IsSet(MonitorsOf(id)[k].alarmRole) =>
      LET entry == EntriesOf(id)[k]
          alarmArn == MonitorsOf(id)[k].alarm.alarmArn
          made == {r \in Range(envs[id].roles) : r.roleArn = entry.alarmRoleArn}
      IN  /\ entry.alarmArn = alarmArn
          /\ entry.alarmRoleArn # <<>>
          /\ Cardinality(made) = 1
          /\ \A r \in made :
               /\ r.assumedBy = {"appconfig.amazonaws.com"}
               /\ Len(r.inlinePolicies) = 1
               /\ Len(r.inlinePolicies[1].statements) = 1
               /\ r.inlinePolicies[1].statements[1] =
                    [effect |-> "Allow",
                     actions |-> <<"cloudwatch:DescribeAlarms">>,
                     resources |-> <<alarmArn>>]

C6_Witness ==
  \E id \in WithMonitors :
    /\ Len(MonitorsOf(id)) = 2
    /\ ~IsSet(MonitorsOf(id)[1].alarmRole)
    /\ ~IsSet(MonitorsOf(id)[2].alarmRole)
    /\ MonitorsOf(id)[1].alarm.alarmArn = "alarm-2"
    /\ MonitorsOf(id)[2].alarm.alarmArn = "alarm-1"
    /\ Len(envs[id].roles) = 2

\* C7: a monitor given with an explicit alarmRole gets no synthesized role,
\* and its entry's alarmRoleArn is the supplied role's roleArn, whatever that
\* value is, the empty string included.
C7_ExplicitRoleUsed ==
  \A id \in WithMonitors : \A k \in 1..Len(MonitorsOf(id)) :
    IsSet(MonitorsOf(id)[k].alarmRole) =>
      /\ EntriesOf(id)[k].alarmRoleArn = Val(MonitorsOf(id)[k].alarmRole).roleArn
      /\ \A r \in Range(envs[id].roles) : r.id # RoleChildId(k - 1)

\* C8: addExistingEnvironment runs once per construction and as its last
\* step, after the descriptor reached the sink and environmentId,
\* environmentArn and the collaborator were set; a construction that throws
\* registers nothing; the registrations are exactly the constructed
\* environments, each once.
C8_RegisteredOnceAtEnd ==
  /\ [](/\ \A i, j \in 1..Len(registered) :
              registered[i].environment = registered[j].environment => i = j
        /\ {registered[i].environment : i \in 1..Len(registered)} = Constructed)
  /\ [][/\ registered' # registered =>
             /\ pc = "register" /\ pc' = "idle"
             /\ result'.status = "returned"
             /\ registered' = Append(registered,
                                [application |-> CurProps.application,
                                 environment |-> CurId])
             /\ CurId \in DOMAIN sink
             /\ IsSet(envs[CurId].environmentId)
             /\ IsSet(envs[CurId].environmentArn)
             /\ IsSet(envs[CurId].extensible)
        /\ result'.status = "threw" => registered' = registered]_vars

C8_Witness ==
  /\ Len(registered) = 2
  /\ result.op = "new Environment"
  /\ result.status = "threw"

\* C9: a name supplied in the props, any string and the empty one included,
\* is the environment's name, the descriptor's name and the collaborator's
\* name; a generated name is used only when no name is supplied.
C9_SuppliedNameVerbatim ==
  \A id \in Constructed :
    IsSet(input.value.name) =>
      /\ envs[id].name = input.value.name
      /\ sink[id].name = Val(input.value.name)
      /\ Val(envs[id].extensible).resourceName = Val(input.value.name)

\* C10: the descriptor has one entry per monitor, entry i built from monitor
\* i; a role synthesized for monitor i is the child `Role<i>`, i counted over
\* the whole list; the role ids of one environment are pairwise distinct, and
\* two constructions with the same monitor list give each `Role<i>` the same
\* alarm.
C10_RolesIndexedByPosition ==
  /\ \A id \in WithMonitors :
       LET ms == MonitorsOf(id)
           roles == envs[id].roles
       IN  /\ Len(EntriesOf(id)) = Len(ms)
           /\ \A k \in 1..Len(ms) :
                /\ EntriesOf(id)[k].alarmArn = ms[k].alarm.alarmArn
                /\ ~IsSet(ms[k].alarmRole) =>
                     \E r \in Range(roles) :
                       /\ r.id = RoleChildId(k - 1)
                       /\ r.roleArn = EntriesOf(id)[k].alarmRoleArn
           /\ \A r \in Range(roles) : \E k \in 1..Len(ms) :
                /\ r.id = RoleChildId(k - 1)
                /\ r.inlinePolicies[1].statements[1].resources =
                     <<ms[k].alarm.alarmArn>>
                /\ r.roleArn = EntriesOf(id)[k].alarmRoleArn
           /\ \A i, j \in 1..Len(roles) : roles[i].id = roles[j].id => i = j
  /\ \A id1, id2 \in WithMonitors :
       envs[id1].monitors = envs[id2].monitors =>
         {<<r.id, r.inlinePolicies[1].statements[1].resources>> :
            r \in Range(envs[id1].roles)}
           = {<<r.id, r.inlinePolicies[1].statements[1].resources>> :
                r \in Range(envs[id2].roles)}

C10_Witness ==
  /\ WithMonitors = Ids
  /\ \A id \in Ids :
       /\ Len(MonitorsOf(id)) = 2
       /\ IsSet(MonitorsOf(id)[1].alarmRole)
       /\ Val(MonitorsOf(id)[1].alarmRole).roleArn = <<"R">>
       /\ ~IsSet(MonitorsOf(id)[2].alarmRole)
       /\ Len(envs[id].roles) = 1
       /\ envs[id].roles[1].id = RoleChildId(1)

====
